---- MODULE Spec2Model ----
(***************************************************************************)
(* Cloudflare bulk domain deleter: the Tk application (src/app.py) and the *)
(* API client (src/cloudflare_client.py) as one state machine.             *)
(*                                                                         *)
(* Text is a sequence of one-character strings, so that strip, lower and   *)
(* splitlines are computed and not assumed.  An optional value (Python's   *)
(* None) is a sequence of length 0 or 1.                                   *)
(***************************************************************************)
EXTENDS Integers, Sequences, FiniteSets, TLC

VARIABLES
    client,              \* App.client: <<>> (None) or <<CloudflareClient>>
    domains_text,        \* content of the Text widget, as Text.get("1.0", END) gives it
    domains_text_state,  \* state of the Text widget: "normal" | "disabled"
    delete_btn,          \* state of the DELETE button: "normal" | "disabled"
    count_label,         \* number shown by "<n> domains queued"
    progress,            \* the progress bar: [value, maximum]
    progress_label,      \* text class of the progress label
    messagebox,          \* title of the last message box shown ("" when none yet)
    log,                 \* lines of the log pane since the last _clear_log
    afterq,              \* callbacks root.after(0, ...) queued by a finished worker
    threads,             \* the worker threads: thread id -> frame of _delete_worker
    http,                \* HTTP requests issued since the last batch was started
    resolved,            \* what get_zone_by_name was given and returned, per lookup
                         \* of the last batch that returned
    remote,              \* how the remote API behaves in this run: "steady" |
                         \* "slow" | "throttled" | "flaky"
    environ,             \* the credentials os.environ holds after load_dotenv
    askyesno,            \* what the last confirmation dialog returned (None: none shown)
    now,                 \* time.time(), in ticks since the last batch was started
    timing,              \* thread id -> the clock readings of _delete_worker
    eta                  \* the ETA, in whole seconds, of the last status label

vars == <<client, domains_text, domains_text_state, delete_btn, count_label,
          progress, progress_label, messagebox, log, afterq, threads, http,
          resolved, remote, environ, askyesno, now, timing, eta>>

\* The variables of the clock
timevars == <<now, timing, eta>>

----------------------------------------------------------------------------
(* Program constants and bounds of the model                               *)

MAX_BATCH == 10

max_retries == 5

BackoffStart == 1

BackoffCap == 30

\* Number of worker threads that can exist at once in the model.
MaxThreads == 2

\* Number of lines beyond MAX_BATCH of the longest text a user can enter.
MaxOver == 1

\* Number of characters of the longest text a user can type key by key.
MaxTextLen == 5

None == <<>>

Some(x) == <<x>>

Min(a, b) == IF a < b THEN a ELSE b

----------------------------------------------------------------------------
(* Python string operations on sequences of characters                     *)

\* The alphabet of the model has one line break, "\n", and the blanks " " and "\t".
Whitespace == {" ", "\t", "\n"}

LineBreaks == {"\n"}

\* str.lower() on one character of the model's alphabet
LowerChar(c) ==
    CASE c = "A" -> "a"
      [] c = "B" -> "b"
      [] c = "S" -> "s"
      [] OTHER -> c

\* str.lower()
Lower(s) == [i \in 1..Len(s) |-> LowerChar(s[i])]

RECURSIVE LStrip(_)
LStrip(s) ==
    IF s # <<>> /\ Head(s) \in Whitespace THEN LStrip(Tail(s)) ELSE s

RECURSIVE RStrip(_)
RStrip(s) ==
    IF s # <<>> /\ s[Len(s)] \in Whitespace
    THEN RStrip(SubSeq(s, 1, Len(s) - 1))
    ELSE s

\* str.strip()
Strip(s) == RStrip(LStrip(s))

\* str.splitlines(): the lines of s without their line breaks; a final line
\* break opens no further line.
RECURSIVE SplitLinesFrom(_, _, _)
SplitLinesFrom(s, cur, started) ==
    IF s = <<>>
    THEN IF started THEN <<cur>> ELSE <<>>
    ELSE IF Head(s) \in LineBreaks
         THEN <<cur>> \o SplitLinesFrom(Tail(s), <<>>, FALSE)
         ELSE SplitLinesFrom(Tail(s), Append(cur, Head(s)), TRUE)

SplitLines(s) == SplitLinesFrom(s, <<>>, FALSE)

\* "sep".join(parts) on Python strings
RECURSIVE Join(_, _)
Join(parts, sep) ==
    IF parts = <<>> THEN ""
    ELSE IF Len(parts) = 1 THEN parts[1]
    ELSE parts[1] \o sep \o Join(Tail(parts), sep)

\* truth value of an optional string: None and "" are false
Truthy(o) == o # None /\ o[1] # ""

----------------------------------------------------------------------------
(* App._parse_domains                                                      *)

\* Mutant: a line is dropped only when it repeats the line kept last.
RECURSIVE DedupeAdjacent(_, _)
DedupeAdjacent(items, out) ==
    IF items = <<>> THEN out
    ELSE IF out # <<>> /\ out[Len(out)] = Head(items)
         THEN DedupeAdjacent(Tail(items), out)
         ELSE DedupeAdjacent(Tail(items), Append(out, Head(items)))

RECURSIVE Dedupe(_, _)
Dedupe(items, out) ==
    IF items = <<>> THEN out
    ELSE IF \E i \in 1..Len(out) : out[i] = Head(items)
         THEN Dedupe(Tail(items), out)
         ELSE Dedupe(Tail(items), Append(out, Head(items)))

_parse_domains(text) ==
    LET lines == SplitLines(text)
        items == [i \in 1..Len(lines) |-> Strip(lines[i])]
        kept  == SelectSeq(items, LAMBDA x : x # <<>>)
    IN  Dedupe(kept, <<>>)

----------------------------------------------------------------------------
(* The environment: credentials, texts a user types, the remote API        *)

\* What os.getenv gives for the three variables: None or a string.
Credentials ==
    [token : {None, Some("tok")}, email : {None, Some("me@x")},
     api_key : {None, Some("key")}]

Letters == <<"a", "b", "c", "d", "e", "f", "g", "h", "i", "j", "k", "l", "m", "n">>

\* n lines, each a distinct one-letter domain
RECURSIVE LinesText(_)
LinesText(n) ==
    IF n = 0 THEN <<>> ELSE LinesText(n - 1) \o <<Letters[n], "\n">>

\* Texts of more than two domains; Text.get appends a final "\n".
LongTexts ==
    {Append(LinesText(n), "\n") :
        n \in {3} \cup ((MAX_BATCH - 1)..(MAX_BATCH + MaxOver))}

ShortTexts ==
    { <<"\n">>,                                \* the empty widget
      <<" ", "\n", "\n", "\n">>,               \* blank lines only
      <<"a", "\n", "\n">>,                     \* a
      <<" ", "A", "\t", "\n", "\n">>,          \* " A\t": padded, upper case
      <<"s", "a", "\n", "\n">>,                \* sa
      <<"a", "\n", "b", "\n", "a", "\n", "\n">>,   \* a, b, a
      <<"A", "\n", "a", "\n", "\n">> }         \* A, a

\* The texts explored against each behaviour of the remote.
TextsFor(r) ==
    IF r = "steady" THEN ShortTexts \cup LongTexts
    ELSE IF r = "slow" THEN ShortTexts \cup {LinesText(3)}
    ELSE ShortTexts

\* Zones the remote may list
zA == [id |-> "z1", name |-> <<"a">>]

zSA == [id |-> "z2", name |-> <<"s", "a">>]

zUpA == [id |-> "z3", name |-> <<"A">>]

zB == [id |-> "z4", name |-> <<"b">>]

Listings == { <<>>, <<zSA, zA>>, <<zSA>>, <<zUpA, zB>> }

NoData == [success |-> FALSE, errors |-> <<>>, result |-> <<>>]

\* An HTTP response: status, the Retry-After header (None or digits), whether
\* the body parses as JSON, the parsed body, the raw body text.
Response(status, retry_after, is_json, data, text) ==
    [status |-> status, retry_after |-> retry_after, is_json |-> is_json,
     data |-> data, text |-> text]

ErrEntry(code, message) == [code |-> code, message |-> message]

\* the Retry-After values the remote sends, as digit strings
RetryAfters == { <<"4", "0">> }

RateLimited ==
    {Response(429, h, FALSE, NoData, "") : h \in {None} \cup {Some(g) : g \in RetryAfters}}

ErrorResponses ==
    { Response(500, None, TRUE,
               [NoData EXCEPT !.errors = <<ErrEntry(Some(1000), "internal")>>], ""),
      Response(403, None, FALSE, NoData, "Forbidden") }

NotJson == Response(200, None, FALSE, NoData, "<html>")

DeleteBodies ==
    { [NoData EXCEPT !.success = TRUE],
      [NoData EXCEPT !.errors = <<ErrEntry(Some(1003), "locked")>>],
      [NoData EXCEPT !.errors = <<ErrEntry(None, "denied"), ErrEntry(Some(7003), "no route")>>],
      NoData }

SteadyNames == {<<Letters[i]>> : i \in 1..Len(Letters)} \ {<<"c">>}

\* The answer of a remote that works: 200, and for a lookup exactly the zone
\* asked for, when the account has it.  Every zone has an id of its own.
SteadyAnswer(method, name) ==
    IF method = "GET"
    THEN Response(200, None, TRUE,
             [NoData EXCEPT !.success = TRUE,
                            !.result = IF name \in SteadyNames
                                       THEN <<[id |-> "z-" \o name[1], name |-> name]>>
                                       ELSE <<>>], "")
    ELSE Response(200, None, TRUE, [NoData EXCEPT !.success = TRUE], "")

\* What requests.request can give for a request: a response, or a transport
\* exception (resp = None).  The steady and the slow remote always work; the
\* throttled remote works or answers 429 without a Retry-After header; the
\* flaky remote may answer anything.
Answers(r, method, name) ==
    IF r \in {"steady", "slow"} THEN {Some(SteadyAnswer(method, name))}
    ELSE IF r = "throttled"
    THEN {Some(SteadyAnswer(method, name)), Some(Response(429, None, FALSE, NoData, ""))}
    ELSE {None}
         \cup {Some(x) : x \in RateLimited \cup ErrorResponses \cup {NotJson}}
         \cup (IF method = "GET"
               THEN {Some(Response(200, None, TRUE,
                          [NoData EXCEPT !.success = TRUE, !.result = l], ""))
                     : l \in Listings}
               ELSE {Some(Response(200, None, TRUE, d, "")) : d \in DeleteBodies})

----------------------------------------------------------------------------
(* cloudflare_client.py                                                    *)

\* CloudflareClient.__init__: None stands for the ValueError it raises.
CloudflareClient(api_token, email, api_key) ==
    IF ~Truthy(api_token) /\ ~(Truthy(email) /\ Truthy(api_key))
    THEN None
    ELSE Some([api_token |-> api_token, email |-> email, api_key |-> api_key,
               max_retries |-> max_retries])

OrEmpty(o) == IF Truthy(o) THEN o[1] ELSE ""

\* Mutant: the key pair is sent whenever it is there, next to the token.
_headers_with_key_pair(c) ==
    [Authorization |-> IF Truthy(c.api_token)
                       THEN Some("Bearer " \o c.api_token[1]) ELSE None,
     XAuthEmail |-> IF Truthy(c.email) \/ ~Truthy(c.api_token)
                    THEN Some(OrEmpty(c.email)) ELSE None,
     XAuthKey |-> IF Truthy(c.api_key) \/ ~Truthy(c.api_token)
                  THEN Some(OrEmpty(c.api_key)) ELSE None]

\* CloudflareClient._headers: an absent header is None
_headers(c) ==
    IF Truthy(c.api_token)
    THEN [Authorization |-> Some("Bearer " \o c.api_token[1]),
          XAuthEmail |-> None, XAuthKey |-> None]
    ELSE [Authorization |-> None,
          XAuthEmail |-> Some(OrEmpty(c.email)), XAuthKey |-> Some(OrEmpty(c.api_key))]

DigitValue(ch) ==
    CASE ch = "0" -> 0 [] ch = "1" -> 1 [] ch = "2" -> 2 [] ch = "3" -> 3
      [] ch = "4" -> 4 [] ch = "5" -> 5 [] ch = "6" -> 6 [] ch = "7" -> 7
      [] ch = "8" -> 8 [] ch = "9" -> 9

\* float() of a string of digits
RECURSIVE PyFloat(_)
PyFloat(ds) ==
    IF ds = <<>> THEN 0
    ELSE 10 * PyFloat(SubSeq(ds, 1, Len(ds) - 1)) + DigitValue(ds[Len(ds)])

\* str() of a body without error entries
PyStr(data) ==
    "{'success': " \o (IF data.success THEN "True" ELSE "False") \o ", 'errors': []}"

ErrorPart(err) ==
    IF err.code # None
    THEN ToString(err.code[1]) \o ": " \o err.message
    ELSE err.message

\* CloudflareClient._format_error_message
_format_error_message(data, status) ==
    IF data.errors # <<>>
    THEN Join([i \in 1..Len(data.errors) |-> ErrorPart(data.errors[i])], "; ")
    ELSE PyStr(data)

Exc(type, text) == [type |-> type, text |-> text]

\* The frame of one _request call: its arguments, its locals retry and
\* backoff, and what it has done so far: the sleeps it made, the number of
\* HTTP requests it issued, the last answer (resp: None for a transport
\* exception) and the exception it raised.
NoCall ==
    [method |-> "", path |-> "", name |-> <<>>, retry |-> 0, backoff |-> 0,
     sleeps |-> <<>>, attempts |-> 0, resp |-> None, exc |-> None]

\* _request entered: retry = 0, backoff = 1.0
NewCall(method, path, name) ==
    [NoCall EXCEPT !.method = method, !.path = path, !.name = name,
                   !.retry = 0, !.backoff = BackoffStart]

\* Mutant: the comparison is strict.
RetriesExhaustedLate(c, retry) == retry > c.max_retries

\* retry >= self.max_retries
RetriesExhausted(c, retry) == retry >= c.max_retries

\* Mutant: the cap of the backoff is put on the header's seconds too.
WaitSecondsCapped(resp, backoff) ==
    IF resp.retry_after # None /\ resp.retry_after[1] # <<>>
    THEN Min(PyFloat(resp.retry_after[1]), BackoffCap)
    ELSE backoff

\* wait_s = float(retry_after) if retry_after else backoff
WaitSeconds(resp, backoff) ==
    IF resp.retry_after # None /\ resp.retry_after[1] # <<>>
    THEN PyFloat(resp.retry_after[1])
    ELSE backoff

\* Mutant: the backoff grows by one second instead of doubling.
NextBackoffLinear(backoff) == Min(backoff + 1, BackoffCap)

\* backoff = min(backoff * 2, 30)
NextBackoff(backoff) == Min(backoff * 2, BackoffCap)

\* resp.ok
Ok(resp) == resp.status < 400

\* Mutant: server errors are retried like 429.
IsRateLimitOrServerError(resp) == resp.status = 429 \/ resp.status >= 500

\* if resp.status_code == 429
IsRateLimit(resp) == resp.status = 429

\* The body _request composes the error message from
ErrorData(resp) ==
    IF resp.is_json THEN resp.data
    ELSE [NoData EXCEPT !.errors = <<ErrEntry(None, resp.text)>>]

\* One iteration of the loop of _request on the answer ans, from the call
\* frame c: the frame after it and where the call stands then ("request":
\* it loops; "returned"; "raised").
RequestStep(cl, c, ans) ==
    LET c1 == [c EXCEPT !.attempts = @ + 1, !.resp = ans] IN
    IF ans = None
    THEN [pc |-> "raised",
          call |-> [c1 EXCEPT !.exc = Some(Exc("Timeout", "request timed out"))]]
    ELSE LET resp == ans[1] IN
         IF IsRateLimit(resp)
         THEN IF RetriesExhausted(cl, c.retry)
              THEN [pc |-> "raised",
                    call |-> [c1 EXCEPT !.exc = Some(Exc("CloudflareAPIError",
                        "Rate limited and max retries exceeded for "
                            \o c.method \o " " \o c.path))]]
              ELSE [pc |-> "request",
                    call |-> [c1 EXCEPT
                        !.sleeps = Append(@, [wait_s |-> WaitSeconds(resp, c.backoff),
                                              hinted |-> resp.retry_after # None]),
                        !.retry = @ + 1,
                        !.backoff = NextBackoff(@)]]
         ELSE IF ~Ok(resp)
         THEN [pc |-> "raised",
               call |-> [c1 EXCEPT !.exc = Some(Exc("CloudflareAPIError",
                   "HTTP " \o ToString(resp.status) \o " for " \o c.method \o " "
                       \o c.path \o ": "
                       \o _format_error_message(ErrorData(resp), resp.status)))]]
         ELSE IF resp.is_json
         THEN [pc |-> "returned", call |-> c1]
         ELSE [pc |-> "raised",
               call |-> [c1 EXCEPT !.exc = Some(Exc("JSONDecodeError",
                                                    "Expecting value"))]]

\* Whether sub occurs in s
Contains(s, sub) ==
    \E i \in 0..(Len(s) - Len(sub)) : SubSeq(s, i + 1, i + Len(sub)) = sub

\* Mutant: a name that contains the query matches.
ZoneMatchesContaining(z, domain) == Contains(Lower(z.name), Lower(Strip(domain)))

\* Mutant: the listing of the provider is trusted, its first entry is taken.
ZoneMatchesAny(z, domain) == TRUE

\* z.get("name", "").lower() == domain.strip().lower()
ZoneMatches(z, domain) == Lower(z.name) = Lower(Strip(domain))

\* CloudflareClient.get_zone_by_name, from the listing data on: the first
\* listed zone that matches, or None
RECURSIVE FirstMatch(_, _)
FirstMatch(results, domain) ==
    IF results = <<>> THEN None
    ELSE IF ZoneMatches(Head(results), domain) THEN Some(Head(results))
    ELSE FirstMatch(Tail(results), domain)

get_zone_by_name(domain, data) == FirstMatch(data.result, domain)

\* Mutant: an HTTP success is taken for a deletion.
delete_zone_trusts_status(data) == [ok |-> TRUE, msg |-> "Deleted"]

\* CloudflareClient.delete_zone, from the response data on: (ok, msg)
delete_zone(data) ==
    IF data.success
    THEN [ok |-> TRUE, msg |-> "Deleted"]
    ELSE [ok |-> FALSE, msg |-> _format_error_message(data, 200)]

----------------------------------------------------------------------------
(* app.py                                                                  *)

\* load_credentials
load_credentials(env) ==
    IF ~Truthy(env.token) /\ ~(Truthy(env.email) /\ Truthy(env.api_key))
    THEN [token |-> None, email |-> None, api_key |-> None]
    ELSE env

\* App.__init__, lines 34-42: the client, or None
MakeClient(env) ==
    LET cr == load_credentials(env) IN
    IF Truthy(cr.token) \/ (Truthy(cr.email) /\ Truthy(cr.api_key))
    THEN CloudflareClient(cr.token, cr.email, cr.api_key)
    ELSE None

\* One line of the log pane
Line(kind, idx, domain, text) ==
    [kind |-> kind, idx |-> idx, domain |-> domain, text |-> text]

Label(kind, completed, total) ==
    [kind |-> kind, completed |-> completed, total |-> total]

\* No thread: the slot of a thread that was not started or has ended
NoThread ==
    [pc |-> "none", domains |-> <<>>, idx |-> 0, completed |-> 0,
     zone |-> None, call |-> NoCall]

Threads == 1..MaxThreads

\* One second (the 1.0 of lines 178-179), in ticks of 100 ms
Second == 10

\* The ticks a request can take: against the slow remote none, 200 ms or
\* 1.5 s; against the others time passes in the sleeps only.
Durations(r) == IF r = "slow" THEN {0, 2, 15} ELSE {0}

Max(a, b) == IF a > b THEN a ELSE b

\* Mutant: the worker sleeps a full second after every item.
PacingSleepFixed(elapsed) == Second

\* if elapsed < 1.0: time.sleep(1.0 - elapsed): the ticks slept
PacingSleep(elapsed) == IF elapsed < Second THEN Second - elapsed ELSE 0

\* Mutant: the ETA is that of the whole batch.
EtaOfTotal(elapsed, completed, total) ==
    (elapsed * total) \div (completed * Second)

\* _update_progress, lines 205-208: eta = int(per_item * remaining), with
\* elapsed given in ticks
Eta(elapsed, completed, total) ==
    LET remaining == Max(total - completed, 0)
    IN  (elapsed * remaining) \div (completed * Second)

\* The clock readings of one worker: start (line 151), t0 (line 154), the
\* reading of the finally block (line 177) and the sleep it led to.
NoTiming == [start |-> 0, t0 |-> 0, at |-> 0, slept |-> 0]

Running(t) == threads[t].pc # "none"

TokenOnly == [token |-> Some("tok"), email |-> None, api_key |-> None]

\* The runs explored: every environment against the steady remote, and a
\* token client against the flaky one.
Scenarios ==
    {<<env, "steady">> : env \in Credentials} \cup {<<TokenOnly, "flaky">>}

\* The runs explored with the clock: a token client against the slow and the
\* throttled remote.
TimedScenarios == {<<TokenOnly, "slow">>, <<TokenOnly, "throttled">>}

\* The state after App.__init__, for the runs given
InitFor(scenarios) ==
    \E sc \in scenarios :
        /\ remote = sc[2]
        /\ environ = sc[1]
        /\ askyesno = None
        /\ now = 0
        /\ timing = [t \in Threads |-> NoTiming]
        /\ eta = 0
        /\ client = MakeClient(sc[1])
        /\ messagebox = IF MakeClient(sc[1]) = None THEN "Secrets missing" ELSE ""
        /\ domains_text = <<"\n">>
        /\ domains_text_state = "normal"
        /\ delete_btn = "normal"
        /\ count_label = 0
        /\ progress = [value |-> 0, maximum |-> 100]
        /\ progress_label = Label("waiting", 0, 0)
        /\ log = <<>>
        /\ afterq = <<>>
        /\ threads = [t \in Threads |-> NoThread]
        /\ http = {}
        /\ resolved = <<>>

Init == InitFor(Scenarios)

\* The user edits the text; the KeyRelease binding runs _on_domains_change.
\* The widget takes input while its state is normal; the user of the model
\* types only while no batch runs (nothing reads the text during a batch).
_on_domains_change ==
    /\ domains_text_state = "normal"
    /\ \A t \in Threads : ~Running(t)
    /\ \E text \in TextsFor(remote) :
        /\ domains_text' = text
        /\ count_label' = Len(_parse_domains(text))
    /\ UNCHANGED <<client, domains_text_state, delete_btn, progress, progress_label,
                   messagebox, log, afterq, threads, http, resolved, remote,
                   environ, askyesno>>

\* The keys of the keyboard of the model
Keys == {"a", "b", "A", " ", "\n"}

\* The user types one key at the end of the text, or Backspace; the KeyRelease
\* binding runs _on_domains_change.  Text.get("1.0", END) ends with a line
\* break that belongs to the widget.
KeyRelease ==
    LET typed == SubSeq(domains_text, 1, Len(domains_text) - 1) IN
    /\ domains_text_state = "normal"
    /\ \E text \in {typed \o <<k>> : k \in IF Len(typed) < MaxTextLen THEN Keys ELSE {}}
                 \cup {SubSeq(typed, 1, Len(typed) - 1)} :
        /\ domains_text' = text \o <<"\n">>
        /\ count_label' = Len(_parse_domains(text \o <<"\n">>))
    /\ UNCHANGED <<client, domains_text_state, delete_btn, progress, progress_label,
                   messagebox, log, afterq, threads, http, resolved, remote,
                   environ, askyesno>>

\* if not domains
NoDomains(domains) == domains = <<>>

\* Mutant: the limit is off by one.
TooManyOffByOne(domains) == Len(domains) > MAX_BATCH + 1

\* if len(domains) > MAX_BATCH
TooMany(domains) == Len(domains) > MAX_BATCH

\* Mutant: on_delete does not look at the client.
NoClientUnchecked == FALSE

\* if self.client is None
NoClient == client = None

\* Mutant: the DELETE button is left enabled.
StartBatchButtonEnabled(domains, t) ==
    /\ delete_btn' = delete_btn
    /\ domains_text_state' = "disabled"
    /\ progress' = [value |-> 0, maximum |-> Len(domains)]
    /\ progress_label' = Label("starting", 0, 0)
    /\ log' = <<Line("starting", 0, <<>>, "Starting bulk deletion...")>>
    /\ threads' = [threads EXCEPT ![t] = [NoThread EXCEPT !.pc = "loop",
                                                         !.domains = domains]]
    /\ http' = {}
    /\ resolved' = <<>>

\* What on_delete does once the user has confirmed (lines 138-148), starting
\* the worker as thread t.
StartBatch(domains, t) ==
    /\ delete_btn' = "disabled"
    /\ domains_text_state' = "disabled"
    /\ progress' = [value |-> 0, maximum |-> Len(domains)]
    /\ progress_label' = Label("starting", 0, 0)
    /\ log' = <<Line("starting", 0, <<>>, "Starting bulk deletion...")>>
    /\ threads' = [threads EXCEPT ![t] = [NoThread EXCEPT !.pc = "loop",
                                                         !.domains = domains]]
    /\ http' = {}
    /\ resolved' = <<>>

\* Mutant: the answer to the confirmation is not looked at.
on_delete_whatever_the_answer ==
    /\ delete_btn = "normal"
    /\ LET domains == _parse_domains(domains_text) IN
        \/ /\ NoDomains(domains) \/ TooMany(domains) \/ NoClient
           /\ messagebox' = IF NoDomains(domains) THEN "No domains"
                             ELSE IF TooMany(domains) THEN "Too many domains"
                             ELSE "Missing credentials"
           /\ UNCHANGED <<delete_btn, domains_text_state, progress, progress_label,
                          log, threads, http, resolved, askyesno>>
        \/ /\ ~NoDomains(domains) /\ ~TooMany(domains) /\ ~NoClient
           /\ messagebox' = "Confirm deletion"
           /\ \E confirm \in BOOLEAN :
                /\ askyesno' = Some(confirm)
                /\ \E t \in Threads : ~Running(t)
                /\ StartBatch(domains, CHOOSE t \in Threads :
                       ~Running(t) /\ \A u \in Threads : ~Running(u) => t <= u)
    /\ UNCHANGED <<client, domains_text, count_label, afterq, remote, environ>>

\* The DELETE button's command; Tk runs it only while the button is enabled.
on_delete ==
    /\ delete_btn = "normal"
    /\ LET domains == _parse_domains(domains_text) IN
        \/ /\ NoDomains(domains)
           /\ messagebox' = "No domains"
           /\ UNCHANGED <<delete_btn, domains_text_state, progress, progress_label,
                          log, threads, http, resolved, askyesno>>
        \/ /\ ~NoDomains(domains) /\ TooMany(domains)
           /\ messagebox' = "Too many domains"
           /\ UNCHANGED <<delete_btn, domains_text_state, progress, progress_label,
                          log, threads, http, resolved, askyesno>>
        \/ /\ ~NoDomains(domains) /\ ~TooMany(domains) /\ NoClient
           /\ messagebox' = "Missing credentials"
           /\ UNCHANGED <<delete_btn, domains_text_state, progress, progress_label,
                          log, threads, http, resolved, askyesno>>
        \/ /\ ~NoDomains(domains) /\ ~TooMany(domains) /\ ~NoClient
           /\ messagebox' = "Confirm deletion"
           /\ \E confirm \in BOOLEAN :
                /\ askyesno' = Some(confirm)
                /\ IF ~confirm
                   THEN UNCHANGED <<delete_btn, domains_text_state, progress,
                                    progress_label, log, threads, http, resolved>>
                   ELSE /\ \E t \in Threads : ~Running(t)
                        /\ StartBatch(domains, CHOOSE t \in Threads :
                               ~Running(t) /\ \A u \in Threads : ~Running(u) => t <= u)
    /\ UNCHANGED <<client, domains_text, count_label, afterq, remote, environ>>

\* Mutant: the loop stops one item early.
ItemsLeftButLast(f) == f.idx < Len(f.domains) - 1

\* for idx, domain in enumerate(domains, start=1): whether an item is left
ItemsLeft(f) == f.idx < Len(f.domains)

\* for idx, domain in enumerate(domains, start=1): the next item, up to the
\* call of _request by get_zone_by_name (lines 153-157, 104-109, 52-54)
worker_next_item(t) ==
    LET f == threads[t] IN
    /\ f.pc = "loop"
    /\ ItemsLeft(f)
    /\ LET idx == f.idx + 1
           domain == f.domains[idx]
       IN /\ log' = Append(log, Line("lookup", idx, domain, ""))
          /\ threads' = [threads EXCEPT ![t] =
                [f EXCEPT !.idx = idx, !.zone = None, !.pc = "request",
                          !.call = NewCall("GET", "/zones", Lower(Strip(domain)))]]
    /\ UNCHANGED <<client, domains_text, domains_text_state, delete_btn, count_label,
                   progress, progress_label, messagebox, afterq, http, resolved,
                   remote,
                   environ, askyesno>>

\* One iteration of the loop of _request (lines 55-88): the HTTP request, its
\* answer, and the sleep when the answer is 429.
_request(t) ==
    LET f == threads[t] IN
    /\ f.pc = "request"
    /\ client # None
    /\ \E ans \in Answers(remote, f.call.method, f.call.name) :
        LET step == RequestStep(client[1], f.call, ans) IN
        /\ http' = http \cup {[method |-> f.call.method, path |-> f.call.path,
                               name |-> f.call.name, idx |-> f.idx,
                               headers |-> _headers(client[1])]}
        /\ threads' = [threads EXCEPT ![t] =
                          [f EXCEPT !.pc = step.pc, !.call = step.call]]
    /\ UNCHANGED <<client, domains_text, domains_text_state, delete_btn, count_label,
                   progress, progress_label, messagebox, log, afterq, resolved,
                   remote,
                   environ, askyesno>>

\* The outcome lines of the log pane
OutcomeKinds == {"not_found", "deleted", "failed", "api_error", "unexpected"}

\* The exception types of the model; all derive from Exception.
ExceptionTypes == {"CloudflareAPIError", "Timeout", "JSONDecodeError"}

\* Mutant: only the clause for CloudflareAPIError is there.
CaughtApiErrorOnly(exc) == exc.type = "CloudflareAPIError"

\* Whether one of the two except clauses (lines 169-172) takes the exception
Caught(exc) == exc.type = "CloudflareAPIError" \/ exc.type \in ExceptionTypes

\* except CloudflareAPIError / except Exception (lines 169-172)
ExceptLine(f, exc) ==
    IF exc.type = "CloudflareAPIError"
    THEN Line("api_error", f.idx, f.domains[f.idx], exc.text)
    ELSE Line("unexpected", f.idx, f.domains[f.idx], exc.text)

\* Mutant: the continue of a zone not found leaves the finally block out.
EndItemSkippedByContinue(t, lines) ==
    LET f == threads[t]
        completed == IF lines[1].kind = "not_found" THEN f.completed
                     ELSE f.completed + 1
    IN /\ log' = log \o lines
       /\ progress' = [progress EXCEPT !.value = completed]
       /\ progress_label' = IF completed = f.completed THEN progress_label
                             ELSE Label("status", completed, Len(f.domains))
       /\ threads' = [threads EXCEPT ![t] =
             [f EXCEPT !.completed = completed, !.pc = "loop", !.call = NoCall]]

\* The finally block (lines 173-179) and _update_progress: the frame and the
\* widgets after the item whose outcome lines are given.
EndItem(t, lines) ==
    LET f == threads[t]
        completed == f.completed + 1
    IN /\ log' = log \o lines
       /\ progress' = [progress EXCEPT !.value = completed]
       /\ progress_label' = Label("status", completed, Len(f.domains))
       /\ threads' = [threads EXCEPT ![t] =
             [f EXCEPT !.completed = completed, !.pc = "loop", !.call = NoCall]]

\* An exception no except clause takes: the finally block runs, then the
\* exception ends the thread.
Uncaught(t) ==
    LET f == threads[t] IN
    /\ progress' = [progress EXCEPT !.value = f.completed + 1]
    /\ progress_label' = Label("status", f.completed + 1, Len(f.domains))
    /\ threads' = [threads EXCEPT ![t] = NoThread]
    /\ UNCHANGED log

\* The worker goes on after _request has returned or raised: the rest of
\* get_zone_by_name or delete_zone, then lines 158-179 of _delete_worker.
worker_resume(t) ==
    LET f == threads[t]
        domain == f.domains[f.idx]
    IN
    /\ f.pc \in {"returned", "raised"}
    /\ IF f.pc = "raised"
       THEN /\ IF Caught(f.call.exc[1])
               THEN EndItem(t, <<ExceptLine(f, f.call.exc[1])>>)
               ELSE Uncaught(t)
            /\ UNCHANGED resolved
       ELSE IF f.call.method = "GET"
       THEN LET zone == get_zone_by_name(domain, f.call.resp[1].data) IN
            /\ resolved' = Append(resolved,
                    [idx |-> f.idx, domain |-> domain,
                     listing |-> f.call.resp[1].data.result, zone |-> zone])
            /\ IF zone = None
               THEN EndItem(t, <<Line("not_found", f.idx, domain, "")>>)
               ELSE /\ log' = Append(log, Line("found", f.idx, domain, zone[1].id))
                    /\ threads' = [threads EXCEPT ![t] =
                          [f EXCEPT !.zone = zone, !.pc = "request",
                                    !.call = NewCall("DELETE", "/zones/" \o zone[1].id,
                                                     <<>>)]]
                    /\ UNCHANGED <<progress, progress_label>>
       ELSE LET r == delete_zone(f.call.resp[1].data) IN
            /\ EndItem(t, IF r.ok THEN <<Line("deleted", f.idx, domain, "")>>
                                  ELSE <<Line("failed", f.idx, domain, r.msg)>>)
            /\ UNCHANGED resolved
    /\ UNCHANGED <<client, domains_text, domains_text_state, delete_btn, count_label,
                   messagebox, afterq, http, remote,
                   environ, askyesno>>

\* Mutant: the callback that enables the DELETE button is not queued.
worker_finish_without_button(t) ==
    LET f == threads[t] IN
    /\ f.pc = "loop"
    /\ ~ItemsLeft(f)
    /\ log' = Append(log, Line("all_done", 0, <<>>, "All done."))
    /\ afterq' = afterq \o <<"label_completed", "text_normal">>
    /\ threads' = [threads EXCEPT ![t] = NoThread]
    /\ UNCHANGED <<client, domains_text, domains_text_state, delete_btn, count_label,
                   progress, progress_label, messagebox, http, resolved, remote,
                   environ, askyesno>>

\* After the loop (lines 181-184): "All done." and the three callbacks; the
\* thread ends.
worker_finish(t) ==
    LET f == threads[t] IN
    /\ f.pc = "loop"
    /\ ~ItemsLeft(f)
    /\ log' = Append(log, Line("all_done", 0, <<>>, "All done."))
    /\ afterq' = afterq \o <<"label_completed", "btn_normal", "text_normal">>
    /\ threads' = [threads EXCEPT ![t] = NoThread]
    /\ UNCHANGED <<client, domains_text, domains_text_state, delete_btn, count_label,
                   progress, progress_label, messagebox, http, resolved, remote,
                   environ, askyesno>>

\* The main loop runs the oldest queued callback.
mainloop_after ==
    /\ afterq # <<>>
    /\ afterq' = Tail(afterq)
    /\ progress_label' = IF Head(afterq) = "label_completed"
                         THEN Label("completed", 0, 0) ELSE progress_label
    /\ delete_btn' = IF Head(afterq) = "btn_normal" THEN "normal" ELSE delete_btn
    /\ domains_text_state' = IF Head(afterq) = "text_normal"
                             THEN "normal" ELSE domains_text_state
    /\ UNCHANGED <<client, domains_text, count_label, progress, messagebox, log,
                   threads, http, resolved, remote,
                   environ, askyesno>>

\* The program with the clock left out: no reading of time.time() is followed.
Next ==
    \/ _on_domains_change /\ UNCHANGED timevars
    \/ on_delete /\ UNCHANGED timevars
    \/ mainloop_after /\ UNCHANGED timevars
    \/ \E t \in Threads :
        \/ worker_next_item(t) /\ UNCHANGED timevars
        \/ _request(t) /\ UNCHANGED timevars
        \/ worker_resume(t) /\ UNCHANGED timevars
        \/ worker_finish(t) /\ UNCHANGED timevars

Spec == Init /\ [][Next]_vars

\* A step of worker thread t
worker_step(t) ==
    (worker_next_item(t) \/ _request(t) \/ worker_resume(t) \/ worker_finish(t))
    /\ UNCHANGED timevars

\* The scheduler lets every thread that can go on do so, requests.request
\* returns or raises (timeout = 30, line 18), and the Tk main loop runs the
\* callbacks queued with root.after.
Fairness ==
    /\ \A t \in Threads : WF_vars(worker_step(t))
    /\ WF_vars(mainloop_after /\ UNCHANGED timevars)

SpecFair == Init /\ [][Next]_vars /\ Fairness

\* The user does nothing but type: every text of up to MaxTextLen keys is parsed.
NextTyping == KeyRelease /\ UNCHANGED timevars

SpecTyping == Init /\ [][NextTyping]_vars

----------------------------------------------------------------------------
(* The program with the clock.  Time is counted in ticks of 100 ms from the *)
(* start of the batch; it passes while a request is under way and while a  *)
(* thread sleeps.                                                           *)

\* on_delete; the worker it starts reads start = time.time() (line 151).
on_delete_timed ==
    /\ on_delete
    /\ IF \E t \in Threads : ~Running(t) /\ threads'[t].pc # "none"
       THEN /\ now' = 0
            /\ timing' = [t \in Threads |->
                             IF ~Running(t) /\ threads'[t].pc # "none"
                             THEN NoTiming ELSE timing[t]]
            /\ eta' = 0
       ELSE UNCHANGED timevars

\* t0 = time.time() (line 154)
worker_next_item_timed(t) ==
    /\ worker_next_item(t)
    /\ timing' = [timing EXCEPT ![t].t0 = now]
    /\ UNCHANGED <<now, eta>>

\* The request takes some time, and time.sleep(wait_s) takes wait_s (line 72).
_request_timed(t) ==
    /\ _request(t)
    /\ LET before == threads[t].call.sleeps
           after == threads'[t].call.sleeps
           wait_s == IF Len(after) > Len(before) THEN after[Len(after)].wait_s ELSE 0
       IN \E d \in Durations(remote) : now' = now + d + wait_s * Second
    /\ UNCHANGED <<timing, eta>>

\* When the item ends, the finally block (lines 173-179): _update_progress
\* computes the ETA, then the worker sleeps for what is left of the second.
worker_resume_timed(t) ==
    /\ worker_resume(t)
    /\ IF threads'[t].pc # "request"
       THEN LET f == threads[t]
                sleep == PacingSleep(now - timing[t].t0)
            IN /\ eta' = Eta(now - timing[t].start, f.completed + 1, Len(f.domains))
               /\ timing' = [timing EXCEPT ![t].at = now, ![t].slept = sleep]
               /\ now' = now + sleep
       ELSE UNCHANGED timevars

\* The thread ends, and its clock readings with it.
worker_finish_timed(t) ==
    /\ worker_finish(t)
    /\ timing' = [timing EXCEPT ![t] = NoTiming]
    /\ UNCHANGED <<now, eta>>

NextTimed ==
    \/ _on_domains_change /\ UNCHANGED timevars
    \/ on_delete_timed
    \/ mainloop_after /\ UNCHANGED timevars
    \/ \E t \in Threads :
        \/ worker_next_item_timed(t)
        \/ _request_timed(t)
        \/ worker_resume_timed(t)
        \/ worker_finish_timed(t)

SpecTimed == InitFor(TimedScenarios) /\ [][NextTimed]_vars

----------------------------------------------------------------------------
(* Properties                                                              *)

Outcomes == SelectSeq(log, LAMBDA l : l.kind \in OutcomeKinds)

Lookups == SelectSeq(log, LAMBDA l : l.kind = "lookup")

ErrorKinds == {"api_error", "unexpected"}

Kinds(lines) == [i \in 1..Len(lines) |-> lines[i].kind]

\* A batch was started and its worker thread has ended.
BatchEnded == log # <<>> /\ \A t \in Threads : ~Running(t)

\* Equality of two names, case-insensitively
EqualIgnoringCase(a, b) ==
    Len(a) = Len(b) /\ \A i \in 1..Len(a) : LowerChar(a[i]) = LowerChar(b[i])

\* The domain of item i of the batch, as the log pane names it
DomainOfItem(i) ==
    LET l == CHOOSE l \in {log[j] : j \in 1..Len(log)} : l.kind = "lookup" /\ l.idx = i
    IN  l.domain

C1_EndedBatchIsComplete ==
    BatchEnded =>
        /\ log[Len(log)].kind = "all_done"
        /\ \A i \in 1..progress.maximum :
            /\ \E j \in 1..Len(log) : log[j].kind = "lookup" /\ log[j].idx = i
            /\ Cardinality({j \in 1..Len(log) :
                    log[j].kind \in OutcomeKinds /\ log[j].idx = i}) = 1

C1_RaiseIsCaughtAtItem ==
    \A t \in Threads :
        (threads[t].pc = "raised" /\ threads'[t] # threads[t]) =>
            /\ threads'[t].pc = "loop"
            /\ threads'[t].idx = threads[t].idx
            /\ threads'[t].domains = threads[t].domains
            /\ Len(log') = Len(log) + 1
            /\ SubSeq(log', 1, Len(log)) = log
            /\ log'[Len(log')].kind \in ErrorKinds
            /\ log'[Len(log')].idx = threads[t].idx

\* C1: whatever the lookup or the delete of an item does, an exception it
\* raises is caught at that item and logged as one error outcome of that
\* item, the worker stays in its loop at that item, and a worker thread ends
\* only after "All done.", with every item of the batch looked up and with
\* exactly one outcome.
C1_PerItemErrorIsolation ==
    []C1_EndedBatchIsComplete /\ [][C1_RaiseIsCaughtAtItem]_vars

\* C1 witness: a batch of two ended whose first item failed with a transport
\* exception and whose second item was deleted.
C1_Witness ==
    /\ BatchEnded
    /\ Kinds(Outcomes) = <<"unexpected", "deleted">>

\* C2: every DELETE request of the batch is for an item whose lookup
\* returned a zone named like the trimmed input domain, case-insensitively,
\* and deletes the id of that zone; an item whose lookup returned no zone,
\* or raised, has no DELETE request.
C2_DeleteOnlyResolvedZone ==
    \A r \in http :
        r.method = "DELETE" =>
            \E k \in 1..Len(resolved) :
                /\ resolved[k].idx = r.idx
                /\ resolved[k].zone # None
                /\ EqualIgnoringCase(resolved[k].zone[1].name,
                                     Strip(DomainOfItem(r.idx)))
                /\ r.path = "/zones/" \o resolved[k].zone[1].id

\* C2 witness: the zone "a" (z1) was deleted for the input "A", out of a
\* listing that names another zone first.
C2_Witness ==
    \E r \in http :
        /\ r.method = "DELETE"
        /\ r.path = "/zones/z1"
        /\ DomainOfItem(r.idx) = <<"A">>
        /\ \E k \in 1..Len(resolved) :
            resolved[k].idx = r.idx /\ resolved[k].listing = <<zSA, zA>>

C3_RunningBatchWithinLimit ==
    \A t \in Threads :
        Running(t) => Len(threads[t].domains) \in 1..MAX_BATCH

C3_OnDeleteValidates ==
    on_delete =>
        LET domains == _parse_domains(domains_text) IN
        /\ (Len(domains) = 0 \/ Len(domains) > MAX_BATCH) =>
            /\ messagebox' \in {"No domains", "Too many domains"}
            /\ UNCHANGED <<threads, http, log, delete_btn, domains_text_state,
                           progress, progress_label>>
        /\ Len(domains) \in 1..MAX_BATCH =>
            /\ messagebox' \in {"Missing credentials", "Confirm deletion"}
            /\ \A t \in Threads :
                threads'[t] # threads[t] => threads'[t].domains = domains

\* C3: on_delete rejects an empty parsed list and a parsed list of more
\* than MAX_BATCH domains, starting no worker and issuing no request; a list
\* of 1..MAX_BATCH domains passes validation and, when a worker is started,
\* the worker gets the whole list.
C3_BatchSizeEnforced ==
    []C3_RunningBatchWithinLimit /\ [][C3_OnDeleteValidates]_vars

\* C3 witness: a batch of exactly MAX_BATCH domains ran to its end, then a
\* text of MAX_BATCH + 1 domains was rejected.
C3_Witness ==
    /\ BatchEnded
    /\ progress.maximum = MAX_BATCH
    /\ Len(Outcomes) = MAX_BATCH
    /\ Len(_parse_domains(domains_text)) = MAX_BATCH + 1
    /\ messagebox = "Too many domains"

Domains(lines) == [i \in 1..Len(lines) |-> lines[i].domain]

C4_LogInOrder ==
    /\ \A j \in 1..Len(Lookups) : Lookups[j].idx = j
    /\ \A j \in 1..Len(Outcomes) :
        Outcomes[j].idx = j /\ Outcomes[j].domain = Lookups[j].domain
    /\ Len(Outcomes) <= Len(Lookups)
    /\ Len(Lookups) <= Len(Outcomes) + 1
    /\ Len(Lookups) <= progress.maximum
    \* the lookup of item i + 1 is logged after the outcome of item i
    /\ \A p \in 1..Len(log) :
        (log[p].kind = "lookup" /\ log[p].idx > 1) =>
            \E q \in 1..(p - 1) :
                log[q].kind \in OutcomeKinds /\ log[q].idx = log[p].idx - 1

C4_WorkerInOrder ==
    \A t \in Threads :
        Running(t) =>
            LET f == threads[t] IN
            /\ progress.maximum = Len(f.domains)
            /\ Len(Lookups) = f.idx
            /\ Domains(Lookups) = SubSeq(f.domains, 1, f.idx)
            /\ Len(Outcomes) = f.completed
            /\ Len(Outcomes) = IF f.pc = "loop" THEN f.idx ELSE f.idx - 1
            \* requests are issued for the current item only
            /\ f.pc \in {"request", "returned", "raised"} =>
                \A r \in http : r.idx <= f.idx

\* C4: the worker takes the domains in input order, each once and one at a
\* time: the lookups and the outcomes logged are those of items 1, 2, ... in
\* this order, for the domains of the batch in their order, the lookup of an
\* item comes after the outcome of the item before it, each item has one
\* outcome, and an ended batch has as many outcomes as input domains.
C4_SequentialInOrder ==
    /\ C4_LogInOrder
    /\ C4_WorkerInOrder
    /\ BatchEnded => Len(Outcomes) = progress.maximum

\* C4 witness: the batch a, b ended with the outcomes Failed, NotFound.
C4_Witness ==
    /\ BatchEnded
    /\ Domains(Outcomes) = << <<"a">>, <<"b">> >>
    /\ Kinds(Outcomes) = <<"failed", "not_found">>

RateLimitError(c) ==
    Exc("CloudflareAPIError",
        "Rate limited and max retries exceeded for " \o c.method \o " " \o c.path)

\* C5: a _request call issues at most max_retries + 1 HTTP requests; when
\* the last of max_retries + 1 answers is a 429 too it raises the rate-limit
\* CloudflareAPIError and returns nothing; a 2xx answer with a JSON body
\* after at most max_retries 429 answers makes it return.
C5_RetryExhaustion ==
    \A t \in Threads :
        Running(t) =>
            LET f == threads[t]
                c == f.call
            IN
            /\ c.attempts <= max_retries + 1
            /\ f.pc = "request" => c.attempts <= max_retries
            \* every answer before the last one was a 429 and was slept on
            /\ c.attempts > 0 =>
                Len(c.sleeps) = IF f.pc = "request" THEN c.attempts ELSE c.attempts - 1
            /\ (c.attempts = max_retries + 1 /\ c.resp # None /\ c.resp[1].status = 429) =>
                f.pc = "raised" /\ c.exc = Some(RateLimitError(c))
            /\ (c.resp # None /\ c.resp[1].status = 200 /\ c.resp[1].is_json) =>
                f.pc = "returned" /\ c.exc = None

\* C5 witness: six 429 answers to a DELETE, and the error raised.
C5_Witness ==
    \E t \in Threads :
        /\ threads[t].pc = "raised"
        /\ threads[t].call.attempts = 6
        /\ threads[t].call.resp # None
        /\ threads[t].call.resp[1].status = 429
        /\ threads[t].call.exc[1].text
             = "Rate limited and max retries exceeded for DELETE /zones/z1"

Unhinted(sleeps) == \A k \in 1..Len(sleeps) : ~sleeps[k].hinted

Waits(sleeps) == [k \in 1..Len(sleeps) |-> sleeps[k].wait_s]

\* C6: the k-th retry of a call, when its 429 had no Retry-After header,
\* sleeps min(2^(k-1), 30) seconds; 429, 429, 200 without headers gives the
\* sleeps 1, 2 and then the result; every call starts with retry 0, backoff
\* 1 and no sleep made.
C6_BackoffPerCall ==
    \A t \in Threads :
        Running(t) =>
            LET f == threads[t]
                c == f.call
            IN
            /\ Len(c.sleeps) = c.retry
            /\ \A k \in 1..Len(c.sleeps) :
                ~c.sleeps[k].hinted => c.sleeps[k].wait_s = Min(2 ^ (k - 1), 30)
            /\ (f.pc = "request" /\ c.attempts = 0) =>
                c.retry = 0 /\ c.backoff = 1 /\ c.sleeps = <<>>
            /\ (f.pc = "returned" /\ c.attempts = 3 /\ Unhinted(c.sleeps)) =>
                Waits(c.sleeps) = <<1, 2>>

\* C6 witness: the DELETE call of an item (its second call) returned after
\* 429, 429, 200 with the sleeps 1 and 2.
C6_Witness ==
    \E t \in Threads :
        /\ threads[t].pc = "returned"
        /\ threads[t].call.method = "DELETE"
        /\ threads[t].call.attempts = 3
        /\ threads[t].call.sleeps
             = << [wait_s |-> 1, hinted |-> FALSE], [wait_s |-> 2, hinted |-> FALSE] >>

\* The message of the error responses of the model, composed by hand
ComposedMessage(resp) == IF resp.status = 500 THEN "1000: internal" ELSE "Forbidden"

C7_OnlyRateLimitRetried ==
    \A t \in Threads :
        (Running(t) /\ threads[t].call.attempts > 0) =>
            LET f == threads[t]
                c == f.call
            IN
            \* the call goes on only after a 429
            /\ f.pc = "request" => (c.resp # None /\ c.resp[1].status = 429)
            \* a transport exception propagates, without a sleep
            /\ c.resp = None =>
                /\ f.pc = "raised"
                /\ c.exc[1].type = "Timeout"
                /\ Len(c.sleeps) = c.attempts - 1
            \* another non-success status raises, without a sleep
            /\ (c.resp # None /\ c.resp[1].status >= 400 /\ c.resp[1].status # 429) =>
                /\ f.pc = "raised"
                /\ c.exc = Some(Exc("CloudflareAPIError",
                        "HTTP " \o ToString(c.resp[1].status) \o " for " \o c.method
                            \o " " \o c.path \o ": " \o ComposedMessage(c.resp[1])))
                /\ Len(c.sleeps) = c.attempts - 1

C7_RaisedCallIsOver ==
    \A t \in Threads :
        (threads[t].pc = "raised" /\ threads'[t] # threads[t]) =>
            /\ http' = http
            /\ threads'[t].call = NoCall

\* C7: _request goes round its loop only after a 429; any other status that
\* is not a success raises CloudflareAPIError with status, method, path and
\* the composed message, and a transport exception propagates; neither
\* sleeps, and the call issues no further request, also after earlier 429s.
C7_NoRetryButOn429 ==
    []C7_OnlyRateLimitRetried /\ [][C7_RaisedCallIsOver]_vars

\* C7 witness: a 500 answer after two 429 answers of the same call.
C7_Witness ==
    \E t \in Threads :
        /\ threads[t].pc = "raised"
        /\ threads[t].call.resp # None
        /\ threads[t].call.resp[1].status = 500
        /\ Len(threads[t].call.sleeps) = 2
        /\ threads[t].call.attempts = 3
        /\ threads[t].call.exc[1].text = "HTTP 500 for GET /zones: 1000: internal"

\* The failure message of the DELETE bodies of the model, composed by hand
ExpectedFailure(errors) ==
    IF errors = <<ErrEntry(Some(1003), "locked")>> THEN "1003: locked"
    ELSE IF errors = <<ErrEntry(None, "denied"), ErrEntry(Some(7003), "no route")>>
    THEN "denied; 7003: no route"
    ELSE "{'success': False, 'errors': []}"

C8_FailedNotError ==
    \A t \in Threads :
        LET f == threads[t] IN
        (/\ f.pc = "returned"
         /\ f.call.method = "DELETE"
         /\ ~f.call.resp[1].data.success
         /\ threads'[t] # f) =>
            /\ log' = Append(log, Line("failed", f.idx, f.domains[f.idx],
                                       ExpectedFailure(f.call.resp[1].data.errors)))
            /\ threads'[t].pc = "loop"
            /\ threads'[t].idx = f.idx
            /\ threads'[t].domains = f.domains
            /\ threads'[t].completed = f.completed + 1

\* C8: after a 2xx answer to DELETE whose body says success false, the
\* worker logs a Failed outcome for the item, with the error entries joined
\* as "<code>: <message>" ("1003: locked"), no error outcome, and stays in
\* its loop for the next item.
C8_LogicalFailureSurfaced ==
    [][C8_FailedNotError]_vars

\* C8 witness: item 1 failed with "1003: locked" and item 2 was looked up.
C8_Witness ==
    /\ \E j \in 1..Len(log) :
        log[j].kind = "failed" /\ log[j].idx = 1 /\ log[j].text = "1003: locked"
    /\ \E j \in 1..Len(log) : log[j].kind = "lookup" /\ log[j].idx = 2

\* C9: get_zone_by_name returns an entry of the listing whose name equals
\* the trimmed domain case-insensitively, and None exactly when the listing
\* has no such entry.
C9_ExactMatchOnly ==
    \A k \in 1..Len(resolved) :
        LET e == resolved[k]
            Exact(z) == EqualIgnoringCase(z.name, Strip(e.domain))
        IN
        /\ e.zone # None =>
            /\ \E i \in 1..Len(e.listing) : e.listing[i] = e.zone[1]
            /\ Exact(e.zone[1])
        /\ e.zone = None <=> \A i \in 1..Len(e.listing) : ~Exact(e.listing[i])

\* C9 witness: for "a" and the listing of sa alone, nothing was returned.
C9_Witness ==
    \E k \in 1..Len(resolved) :
        /\ resolved[k].domain = <<"a">>
        /\ resolved[k].listing = <<zSA>>
        /\ resolved[k].zone = None

\* C10: at most one worker thread runs at any time, and the DELETE button is
\* disabled as long as one runs.
C10_SingleWorker ==
    /\ Cardinality({t \in Threads : Running(t)}) <= 1
    /\ (\E t \in Threads : Running(t)) => delete_btn = "disabled"

\* C10 witness: a worker runs while a callback of the worker before it is
\* still queued.
C10_Witness ==
    /\ \E t \in Threads : Running(t) /\ threads[t].idx = 1
    /\ afterq = <<"text_normal">>

\* The text of the lines given, one line break between two lines
RECURSIVE JoinLines(_)
JoinLines(lines) ==
    IF lines = <<>> THEN <<>>
    ELSE IF Len(lines) = 1 THEN lines[1]
    ELSE lines[1] \o <<"\n">> \o JoinLines(Tail(lines))

\* The trimmed lines of the widget's text
TrimmedLines ==
    LET ls == SplitLines(domains_text) IN [i \in 1..Len(ls) |-> Strip(ls[i])]

\* The line at which an entry occurs first
FirstLine(x) ==
    CHOOSE i \in 1..Len(TrimmedLines) :
        TrimmedLines[i] = x /\ \A j \in 1..(i - 1) : TrimmedLines[j] # x

\* C11: _parse_domains returns the trimmed non-empty lines of the text, each
\* once, in the order of their first occurrence: no entry is empty, begins or
\* ends with white space or holds a line break, no two entries are equal, and
\* parsing the result joined by line breaks gives the result again;
\* "a\nb\na" gives a, b.
C11_ParseDomains ==
    LET out == _parse_domains(domains_text) IN
    /\ count_label = Len(out)
    /\ \A i \in 1..Len(out) :
        /\ out[i] # <<>>
        /\ out[i][1] \notin Whitespace
        /\ out[i][Len(out[i])] \notin Whitespace
        /\ \A k \in 1..Len(out[i]) : out[i][k] \notin LineBreaks
    /\ \A i, j \in 1..Len(out) : i # j => out[i] # out[j]
    /\ {out[i] : i \in 1..Len(out)}
         = {TrimmedLines[i] : i \in 1..Len(TrimmedLines)} \ {<<>>}
    /\ \A i, j \in 1..Len(out) : i < j => FirstLine(out[i]) < FirstLine(out[j])
    /\ _parse_domains(JoinLines(out)) = out
    /\ _parse_domains(JoinLines(out) \o <<"\n">>) = out
    /\ domains_text = <<"a", "\n", "b", "\n", "a", "\n">> => out = << <<"a">>, <<"b">> >>

\* C11 witness: the text "a\nb\na" was typed and two domains are queued.
C11_Witness ==
    /\ domains_text = <<"a", "\n", "b", "\n", "a", "\n">>
    /\ count_label = 2

C12_CompletedMatchesOutcomes ==
    /\ \A t \in Threads : Running(t) =>
        LET f == threads[t] IN
        /\ f.completed = Len(Outcomes)
        /\ f.completed = IF f.pc = "loop" THEN f.idx ELSE f.idx - 1
        /\ f.completed <= Len(f.domains)
        /\ progress = [value |-> f.completed, maximum |-> Len(f.domains)]
        /\ f.completed > 0 =>
              progress_label = Label("status", f.completed, Len(f.domains))
    /\ BatchEnded =>
        /\ progress.value = progress.maximum
        /\ progress.value = Len(Outcomes)

C12_OneNotificationPerItem ==
    \A t \in Threads : (Running(t) /\ threads'[t].pc # "none") =>
        /\ (Len(Outcomes') # Len(Outcomes)
             \/ threads'[t].completed # threads[t].completed
             \/ progress'.value # progress.value) =>
            /\ Len(Outcomes') = Len(Outcomes) + 1
            /\ threads'[t].completed = threads[t].completed + 1
            /\ progress'.value = progress.value + 1
            /\ progress_label' = Label("status", progress'.value, progress.maximum)
        /\ Len(Lookups') # Len(Lookups) =>
            /\ progress.value = Len(Lookups)
            /\ Len(Outcomes) = Len(Lookups)

\* C12: the count of completed items goes up by exactly one with the outcome
\* of every item, whatever the outcome is; the progress bar and the status
\* label are notified of it with the outcome, before the lookup of the next
\* item; the values notified are 1, 2, ... up to the size of the batch, which
\* is the count when the batch has ended.
C12_ProgressMonotone ==
    []C12_CompletedMatchesOutcomes /\ [][C12_OneNotificationPerItem]_vars

\* C12 witness: a batch of two ended with the progress bar at 2 of 2, the first
\* item not found and the second failed with an API error.
C12_Witness ==
    /\ BatchEnded
    /\ progress = [value |-> 2, maximum |-> 2]
    /\ Kinds(Outcomes) = <<"not_found", "api_error">>

C13_SleepFillsTheSecond ==
    \A t \in Threads : (threads[t].pc = "loop" /\ threads[t].completed > 0) =>
        LET tm == timing[t]
            elapsed == tm.at - tm.t0
        IN /\ elapsed >= 0
           /\ tm.slept >= 0
           /\ tm.slept >= Second - elapsed
           /\ tm.slept = 0 \/ tm.slept = Second - elapsed
           /\ now = tm.at + tm.slept
           /\ now - tm.t0 >= Second
           /\ elapsed = 2 => tm.slept = 8
           /\ elapsed >= Second => tm.slept = 0

C13_NextItemASecondLater ==
    \A t \in Threads :
        (threads[t].pc = "loop" /\ threads[t].idx > 0 /\ threads'[t].pc = "request") =>
            /\ timing'[t].t0 = now
            /\ timing'[t].t0 - timing[t].t0 >= Second

\* C13: after every item the worker sleeps max(0, 1 s - elapsed), elapsed being
\* the time since the item was begun, the sleeps of the client's backoff
\* included: an item of 200 ms is followed by a sleep of 800 ms, an item of a
\* second or more by none, and an item begins no less than a second after the
\* item before it began.
C13_Pacing ==
    []C13_SleepFillsTheSecond /\ [][C13_NextItemASecondLater]_vars

\* C13 witness: the second item begins a second after the first, which took
\* 200 ms and was followed by a sleep of 800 ms.
C13_Witness ==
    \E t \in Threads :
        /\ threads[t].pc = "request"
        /\ threads[t].idx = 2
        /\ timing[t].at = 2
        /\ timing[t].slept = 8
        /\ timing[t].t0 = Second

\* The environment holds a token, or an email together with a key.
HasCredentials ==
    \/ environ.token # None /\ environ.token[1] # ""
    \/ /\ environ.email # None /\ environ.email[1] # ""
       /\ environ.api_key # None /\ environ.api_key[1] # ""

C14_WarnedAtStart == ~HasCredentials => messagebox = "Secrets missing"

C14_NothingStarted ==
    ~HasCredentials =>
        /\ CloudflareClient(environ.token, environ.email, environ.api_key) = None
        /\ client = None
        /\ \A t \in Threads : ~Running(t)
        /\ http = {}
        /\ log = <<>>
        /\ domains_text_state = "normal"
        /\ messagebox \in {"Secrets missing", "No domains", "Too many domains",
                           "Missing credentials"}

\* C14: with no token and no complete pair of email and key in the
\* environment (email without key and key without email included), the
\* client cannot be built, the application starts with the warning "Secrets
\* missing", and whatever the user does afterwards no worker is started, no
\* HTTP request is issued and no confirmation is asked for.
C14_MissingCredentials == C14_WarnedAtStart /\ []C14_NothingStarted

\* C14 witness: with an email and no key in the environment, DELETE was
\* clicked on a valid batch and answered with "Missing credentials".
C14_Witness ==
    /\ environ = [token |-> None, email |-> Some("me@x"), api_key |-> None]
    /\ count_label = 2
    /\ messagebox = "Missing credentials"

\* C15: a batch that was started runs to its end: the worker goes through
\* every item, whatever the outcomes, logs "All done." and ends, and the
\* DELETE button and the text widget are enabled again.
C15_BatchTerminates ==
    (\E t \in Threads : Running(t)) ~>
        /\ \A t \in Threads : ~Running(t)
        /\ log # <<>> /\ Kinds(log)[Len(log)] = "all_done"
        /\ Len(Outcomes) = progress.maximum
        /\ delete_btn = "normal"
        /\ domains_text_state = "normal"

\* C15 witness: a batch has ended after a lookup that was rate limited until
\* the retries were used up, and both controls are enabled again.
C15_Witness ==
    /\ BatchEnded
    /\ \E i \in 1..Len(log) : log[i].kind = "api_error"
            /\ log[i].text = "Rate limited and max retries exceeded for GET /zones"
    /\ afterq = <<>>
    /\ delete_btn = "normal"
    /\ domains_text_state = "normal"

C16_HeadersOfOneMode ==
    /\ \A q \in http :
        /\ environ.token # None =>
            /\ q.headers.Authorization = Some("Bearer tok")
            /\ q.headers.XAuthEmail = None
            /\ q.headers.XAuthKey = None
        /\ environ.token = None =>
            /\ q.headers.Authorization = None
            /\ q.headers.XAuthEmail = Some("me@x")
            /\ q.headers.XAuthKey = Some("key")
    /\ \A q1, q2 \in http : q1.headers = q2.headers

\* C16: every request of a client carries the headers of exactly one mode of
\* authentication, the same for as long as the client lives: with a token
\* the bearer Authorization header and neither X-Auth-Email nor X-Auth-Key,
\* also when email and key are set as well; without a token X-Auth-Email and
\* X-Auth-Key and no Authorization header.
C16_AuthModeExclusive ==
    []C16_HeadersOfOneMode /\ [][client' = client /\ environ' = environ]_vars

\* C16 witness: with token, email and key all set, a DELETE request went out
\* with the bearer header alone.
C16_Witness ==
    /\ environ = [token |-> Some("tok"), email |-> Some("me@x"), api_key |-> Some("key")]
    /\ \E q \in http :
        /\ q.method = "DELETE"
        /\ q.headers = [Authorization |-> Some("Bearer tok"),
                        XAuthEmail |-> None, XAuthKey |-> None]

C17_HintIsTheWait ==
    \A t \in Threads : Running(t) =>
        LET c == threads[t].call IN
        /\ \A k \in 1..Len(c.sleeps) :
              c.sleeps[k].hinted => c.sleeps[k].wait_s = 40 /\ c.sleeps[k].wait_s > BackoffCap
        /\ (threads[t].pc = "returned" /\ Len(c.sleeps) = 2
                /\ ~c.sleeps[1].hinted /\ c.sleeps[2].hinted) =>
              Waits(c.sleeps) = <<1, 40>>

C17_HintedRetry ==
    \A t \in Threads :
        LET c == threads[t].call
            d == threads'[t].call
        IN (/\ threads[t].pc = "request"
            /\ d.attempts = c.attempts + 1
            /\ d.resp # None
            /\ d.resp[1].status = 429
            /\ d.resp[1].retry_after = Some(<<"4", "0">>)
            /\ c.retry < max_retries) =>
                /\ threads'[t].pc = "request"
                /\ d.sleeps = Append(c.sleeps, [wait_s |-> 40, hinted |-> TRUE])
                /\ d.retry = c.retry + 1
                /\ <<d.method, d.path, d.name>> = <<c.method, c.path, c.name>>
                /\ threads'[t].idx = threads[t].idx

\* C17: on a 429 that carries a Retry-After header, while retries are left,
\* _request sleeps the seconds the header gives (40 for "40") and not the
\* backoff, whatever the backoff is and beyond the cap of 30 s, and then
\* sends the same request again.
C17_RetryAfterHonoured ==
    []C17_HintIsTheWait /\ [][C17_HintedRetry]_vars

\* C17 witness: a call returned after 429 without the header, 429 with
\* Retry-After: 40, 200; it slept 1 s and 40 s.
C17_Witness ==
    \E t \in Threads :
        /\ threads[t].pc = "returned"
        /\ threads[t].call.method = "DELETE"
        /\ Waits(threads[t].call.sleeps) = <<1, 40>>

\* C18: the status label of every notification with completed > 0 shows
\* (elapsed / completed) * (total - completed) cut down to whole seconds,
\* elapsed being the time since the batch was started; the ETA is never
\* negative, and it is 0 in the notification of the last item.
C18_EtaIsTruncatedEstimate ==
    /\ eta >= 0
    /\ \A t \in Threads : (Running(t) /\ threads[t].completed > 0) =>
        LET f == threads[t]
            elapsed == timing[t].at - timing[t].start
            remaining == Len(f.domains) - f.completed
        IN /\ elapsed >= 0
           /\ remaining >= 0
           /\ eta * f.completed * Second <= elapsed * remaining
           /\ elapsed * remaining < (eta + 1) * f.completed * Second
           /\ remaining = 0 => eta = 0
    /\ BatchEnded => eta = 0

\* C18 witness: the first of three items took 1.7 s; the label shows an ETA of
\* 3 s, which is 3.4 s cut down.
C18_Witness ==
    \E t \in Threads :
        /\ threads[t].completed = 1
        /\ Len(threads[t].domains) = 3
        /\ timing[t].at - timing[t].start = 17
        /\ eta = 3

C19_WorkerHasConsent ==
    (\E t \in Threads : Running(t)) => client # None /\ askyesno = Some(TRUE)

C19_StartNeedsConsent ==
    /\ \A t \in Threads : (~Running(t) /\ threads'[t].pc # "none") =>
        LET domains == _parse_domains(domains_text) IN
        /\ delete_btn = "normal"
        /\ domains # <<>>
        /\ Len(domains) <= MAX_BATCH
        /\ client # None
        /\ messagebox' = "Confirm deletion"
        /\ askyesno' = Some(TRUE)
        /\ threads'[t].domains = domains
    /\ (http' # http /\ http' # {}) =>
        \E t \in Threads : threads[t].pc = "request"

C19_DeclineChangesNothing ==
    (/\ askyesno' = Some(FALSE)
     /\ \/ askyesno # Some(FALSE)
        \/ messagebox # "Confirm deletion" /\ messagebox' = "Confirm deletion") =>
        /\ messagebox' = "Confirm deletion"
        /\ delete_btn' = "normal"
        /\ UNCHANGED <<client, domains_text, domains_text_state, delete_btn,
                       count_label, progress, progress_label, log, afterq, threads,
                       http, resolved>>

\* C19: on_delete starts a worker only if, in that same call, the parsed batch
\* is not empty and within MAX_BATCH, the client exists and the user answered
\* yes to the confirmation; requests are issued only by a running worker; and
\* a declined confirmation leaves the controls enabled and the text, the
\* progress bar, the label, the log and the threads as they were.
C19_NoSideEffectsBeforeConfirm ==
    /\ []C19_WorkerHasConsent
    /\ [][C19_StartNeedsConsent /\ C19_DeclineChangesNothing]_vars

\* C19 witness: the user declined the confirmation of a valid batch of two;
\* nothing was logged and the button is enabled.
C19_Witness ==
    /\ askyesno = Some(FALSE)
    /\ messagebox = "Confirm deletion"
    /\ count_label = 2
    /\ log = <<>>
    /\ delete_btn = "normal"
    /\ progress = [value |-> 0, maximum |-> 100]

\* C20: within one batch no two items resolve to the same remote zone, and
\* no two items have a DELETE request sent for the same zone.
C20_OneDeletePerZone ==
    /\ \A i, j \in 1..Len(resolved) :
        (i # j /\ resolved[i].zone # None /\ resolved[j].zone # None) =>
            resolved[i].zone[1].id # resolved[j].zone[1].id
    /\ \A q1, q2 \in http :
        (q1.method = "DELETE" /\ q2.method = "DELETE" /\ q1.path = q2.path) =>
            q1.idx = q2.idx

====
